---- MODULE Spec2Model ----
(***************************************************************************)
(* Model of backend/index.js (the Express API of the Ubuntu-on-Web         *)
(* spawner): the in-memory task store, the POST /deploy handler with its   *)
(* fire-and-forget provisioning pipeline, the GET /status/:id handler and  *)
(* the getFreePort helper.                                                 *)
(*                                                                         *)
(* Node runs JavaScript to completion on one thread.  Every continuation   *)
(* of a pipeline (the code between two awaits) is therefore one action.    *)
(* The /deploy handler is written out in its three synchronous parts       *)
(* (store the task, run the pipeline up to its first await, send the       *)
(* response); while `stack` is not idle no other action is enabled, so     *)
(* the three parts cannot be interleaved with anything.                    *)
(*                                                                         *)
(* The Docker daemon is the environment: pull and createContainer end in   *)
(* success or failure, start fails when the requested host port is already *)
(* bound by a started container or for a reason of its own.  A JavaScript  *)
(* object is a function whose domain is the set of its own keys.           *)
(***************************************************************************)
EXTENDS Integers, FiniteSets, Sequences, TLC

VARIABLES
  tasks,       \* const tasks = {}: id -> task object (status, type, ...)
  stack,       \* the /deploy handler run in progress, or Idle
  pc,          \* id -> the await its pipeline is suspended at, or "done"
  locals,      \* id -> the pipeline's local variables (i, p, hostPort, container)
  containers,  \* the runtime's containers: handle -> name, host port, started
  calls,       \* id -> number of calls of each runtime operation and of getFreePort
  resp         \* the HTTP response written by the latest step, if it wrote one

vars == <<tasks, stack, pc, locals, containers, calls, resp>>

(* ----------------------------- bounds ---------------------------------- *)

\* Math.random() is drawn from {0/NumRand, ..., (NumRand-1)/NumRand}.
NumRand == 2

\* The identifiers successive uuidv4() calls return; a behaviour accepts one
\* deploy request per identifier, so at most two pipelines run.
Uuids == <<"u1", "u2">>

(* ------------------------- program constants --------------------------- *)

min == 30000

max == 40000

\* for (let i=0;i<100;i++)
MaxAttempts == 100

ValidTypes == {"desktop", "server"}

\* Values of req.body.type the requests carry; "undefined" is a missing type.
ReqTypes == ValidTypes \cup {"laptop", "undefined"}

\* uuidv4(): the n-th identifier handed out; identifiers are never reused.
uuidv4(n) == Uuids[n]

TaskIds == {Uuids[n] : n \in 1..Len(Uuids)}

\* Keys every plain object inherits from Object.prototype.
ObjectPrototype == {"constructor"}

\* The ids status queries carry: every id deploy can hand out, an id that is
\* never handed out, and the inherited keys.
QueryIds == TaskIds \cup {"nope"} \cup ObjectPrototype

PullError == "pull failed"
CreateError == "create failed"
StartError == "start failed"
PortInUse == "port is already allocated"
NoFreePorts == "no free ports"

Idle == [at |-> "idle"]

NoResponse == [req |-> "none"]

(* ------------------------------ helpers -------------------------------- *)

\* obj[key] = val on a JavaScript object: the key is added when it is new.
Put(obj, key, val) ==
  [k \in (DOMAIN obj) \cup {key} |-> IF k = key THEN val ELSE obj[k]]

\* Variant of SetField that writes through a record shared by all the tasks.
SetFieldShared(id, key, val) == [t \in DOMAIN tasks |-> Put(tasks[t], key, val)]

\* tasks[id].key = val
SetField(id, key, val) == [tasks EXCEPT ![id] = Put(@, key, val)]

\* One more call of kind `what` made on behalf of task id.
Called(id, what) == [calls EXCEPT ![id][what] = @ + 1]

\* Variant of RandomPort that scales by max instead of max-min.
RandomPortWide(k) == ((k * max) \div NumRand) + min

\* Math.floor(Math.random()*(max-min))+min with Math.random() = k/NumRand.
RandomPort(k) == ((k * (max - min)) \div NumRand) + min

\* Host ports bound by started containers.  The containers this server starts
\* are the only lasting listeners in the port range; a probe's own listener is
\* closed in the continuation that learns it is listening.
BoundPorts == {containers[c].port : c \in {d \in DOMAIN containers : containers[d].started}}

\* Variant of Catch that only logs the error and leaves the task as it is.
CatchOnlyLogs(id, message) ==
  /\ tasks' = tasks
  /\ pc' = [pc EXCEPT ![id] = "done"]

\* Variant of Catch that sets the status and drops the message.
CatchNoDetail(id, message) ==
  /\ tasks' = [tasks EXCEPT ![id] = Put(@, "status", "error")]
  /\ pc' = [pc EXCEPT ![id] = "done"]

\* Variant of Catch that records the message and forgets the status.
CatchKeepsStatus(id, message) ==
  /\ tasks' = [tasks EXCEPT ![id] = Put(@, "error", message)]
  /\ pc' = [pc EXCEPT ![id] = "done"]

\* Variant of Catch that also records the port the pipeline had been given.
CatchRecordsPort(id, message) ==
  /\ tasks' = [tasks EXCEPT ![id] =
       LET t == Put(Put(@, "status", "error"), "error", message) IN
         IF "hostPort" \in DOMAIN locals[id]
           THEN Put(t, "hostPort", locals[id].hostPort)
           ELSE t]
  /\ pc' = [pc EXCEPT ![id] = "done"]

\* The catch block of the pipeline.
Catch(id, message) ==
  /\ tasks' = [tasks EXCEPT ![id] = Put(Put(@, "status", "error"), "error", message)]
  /\ pc' = [pc EXCEPT ![id] = "done"]

(* ------------------------------- state --------------------------------- *)

Init ==
  /\ tasks = <<>>
  /\ stack = Idle
  /\ pc = <<>>
  /\ locals = <<>>
  /\ containers = <<>>
  /\ calls = <<>>
  /\ resp = NoResponse

(* --------------------------- POST /deploy ------------------------------ *)

\* Variant of DeployReject that validates after the task has been stored.
DeployRejectAfterStore(type) ==
  /\ stack = Idle
  /\ type \notin ValidTypes
  /\ tasks' = IF Cardinality(DOMAIN tasks) < Len(Uuids)
                THEN tasks @@ (uuidv4(Cardinality(DOMAIN tasks) + 1) :>
                                 [status |-> "queued", type |-> type])
                ELSE tasks
  /\ resp' = [req |-> "deploy", type |-> type, code |-> 400,
              error |-> "type must be desktop or server"]
  /\ UNCHANGED <<stack, pc, locals, containers, calls>>

\* The validation of line 87 fails: 400, nothing else happens.
DeployReject(type) ==
  /\ stack = Idle
  /\ type \notin ValidTypes
  /\ resp' = [req |-> "deploy", type |-> type, code |-> 400,
              error |-> "type must be desktop or server"]
  /\ UNCHANGED <<tasks, stack, pc, locals, containers, calls>>

\* Lines 86-89: the type is valid, the task is stored as queued.
DeployCreate(type) ==
  /\ stack = Idle
  /\ type \in ValidTypes
  /\ Cardinality(DOMAIN tasks) < Len(Uuids)
  /\ LET id == uuidv4(Cardinality(DOMAIN tasks) + 1) IN
       /\ tasks' = tasks @@ (id :> [status |-> "queued", type |-> type])
       /\ calls' = calls @@ (id :> [pull |-> 0, getFreePort |-> 0, create |-> 0, start |-> 0])
       /\ stack' = [at |-> "iife", id |-> id, type |-> type]
  /\ resp' = NoResponse
  /\ UNCHANGED <<pc, locals, containers>>

\* Variant of DeployLaunch that sets 'pulling' only after the pull's await.
DeployLaunchLeavesQueued ==
  /\ stack.at = "iife"
  /\ tasks' = tasks
  /\ calls' = Called(stack.id, "pull")
  /\ pc' = pc @@ (stack.id :> "pull")
  /\ locals' = locals @@ (stack.id :> <<>>)
  /\ stack' = [stack EXCEPT !.at = "respond"]
  /\ resp' = NoResponse
  /\ UNCHANGED containers

\* Lines 91-103: the pipeline runs up to its first await; docker.pull is issued.
DeployLaunch ==
  /\ stack.at = "iife"
  /\ tasks' = SetField(stack.id, "status", "pulling")
  /\ calls' = Called(stack.id, "pull")
  /\ pc' = pc @@ (stack.id :> "pull")
  /\ locals' = locals @@ (stack.id :> <<>>)
  /\ stack' = [stack EXCEPT !.at = "respond"]
  /\ resp' = NoResponse
  /\ UNCHANGED containers

\* Variant of DeployRespond that awaits the pipeline before it answers.
DeployRespondAwaits ==
  /\ stack.at = "respond"
  /\ pc[stack.id] = "done"
  /\ resp' = [req |-> "deploy", type |-> stack.type, code |-> 200, id |-> stack.id]
  /\ stack' = Idle
  /\ UNCHANGED <<tasks, pc, locals, containers, calls>>

\* Line 153: res.json({ id }).
DeployRespond ==
  /\ stack.at = "respond"
  /\ resp' = [req |-> "deploy", type |-> stack.type, code |-> 200, id |-> stack.id]
  /\ stack' = Idle
  /\ UNCHANGED <<tasks, pc, locals, containers, calls>>

(* ----------------------------- pipeline -------------------------------- *)

\* getFreePort's loop body up to its await: candidate p, listen(p) issued.
ProbeIssue(id, i, k) ==
  /\ locals' = [locals EXCEPT ![id] = [i |-> i, p |-> RandomPort(k)]]
  /\ pc' = [pc EXCEPT ![id] = "probe"]

\* Lines 96-108: the pull ended.
PullDone(id, ok) ==
  /\ stack = Idle
  /\ pc[id] = "pull"
  /\ IF ok
       THEN /\ tasks' = SetField(id, "status", "creating")
            /\ calls' = Called(id, "getFreePort")
            /\ \E k \in 0..(NumRand - 1) : ProbeIssue(id, 0, k)
       ELSE /\ Catch(id, PullError)
            /\ UNCHANGED <<locals, calls>>
  /\ resp' = NoResponse
  /\ UNCHANGED <<stack, containers>>

\* Variant of ProbeDone that returns the port without server.close(): the
\* probe's listener stays on the port.
ProbeDoneKeepsListening(id) ==
  /\ stack = Idle
  /\ pc[id] = "probe"
  /\ IF locals[id].p \notin BoundPorts
       THEN /\ locals' = [locals EXCEPT ![id] = [hostPort |-> locals[id].p]]
            /\ containers' = containers @@
                 (("listener_" \o id) :>
                    [name |-> "net.Server", port |-> locals[id].p, started |-> TRUE])
            /\ calls' = Called(id, "create")
            /\ pc' = [pc EXCEPT ![id] = "create"]
            /\ UNCHANGED tasks
       ELSE IF locals[id].i + 1 < MaxAttempts
              THEN /\ \E k \in 0..(NumRand - 1) : ProbeIssue(id, locals[id].i + 1, k)
                   /\ UNCHANGED <<tasks, calls, containers>>
              ELSE /\ Catch(id, NoFreePorts)
                   /\ UNCHANGED <<locals, calls, containers>>
  /\ resp' = NoResponse
  /\ UNCHANGED stack

\* Lines 166-177 and 108-135: the listen of the probe ended.
ProbeDone(id) ==
  /\ stack = Idle
  /\ pc[id] = "probe"
  /\ IF locals[id].p \notin BoundPorts
       THEN \* listening: server.close(); return p; createContainer is issued
            /\ locals' = [locals EXCEPT ![id] = [hostPort |-> locals[id].p]]
            /\ calls' = Called(id, "create")
            /\ pc' = [pc EXCEPT ![id] = "create"]
            /\ UNCHANGED tasks
       ELSE \* in use: next iteration, or throw after the last one
            IF locals[id].i + 1 < MaxAttempts
              THEN /\ \E k \in 0..(NumRand - 1) : ProbeIssue(id, locals[id].i + 1, k)
                   /\ UNCHANGED <<tasks, calls>>
              ELSE /\ Catch(id, NoFreePorts)
                   /\ UNCHANGED <<locals, calls>>
  /\ resp' = NoResponse
  /\ UNCHANGED <<stack, containers>>

\* Variant of CreateDone that calls container.start() without awaiting it.
CreateDoneNoAwait(id, ok) ==
  /\ stack = Idle
  /\ pc[id] = "create"
  /\ IF ok
       THEN LET c == "c" \o ToString(Cardinality(DOMAIN containers) + 1) IN
            /\ containers' = containers @@
                 (c :> [name |-> "ubuntu_" \o tasks[id].type \o "_" \o id,
                        port |-> locals[id].hostPort, started |-> FALSE])
            /\ locals' = [locals EXCEPT ![id] = Put(@, "container", c)]
            /\ tasks' = SetField(id, "status", "starting")
            /\ calls' = Called(id, "start")
            /\ pc' = [pc EXCEPT ![id] = "wait"]
       ELSE /\ Catch(id, CreateError)
            /\ UNCHANGED <<locals, containers, calls>>
  /\ resp' = NoResponse
  /\ UNCHANGED stack

\* Lines 135-137: createContainer ended.
CreateDone(id, ok) ==
  /\ stack = Idle
  /\ pc[id] = "create"
  /\ IF ok
       THEN LET c == "c" \o ToString(Cardinality(DOMAIN containers) + 1) IN
            /\ containers' = containers @@
                 (c :> [name |-> "ubuntu_" \o tasks[id].type \o "_" \o id,
                        port |-> locals[id].hostPort, started |-> FALSE])
            /\ locals' = [locals EXCEPT ![id] = Put(@, "container", c)]
            /\ tasks' = SetField(id, "status", "starting")
            /\ calls' = Called(id, "start")
            /\ pc' = [pc EXCEPT ![id] = "start"]
       ELSE /\ Catch(id, CreateError)
            /\ UNCHANGED <<locals, containers, calls>>
  /\ resp' = NoResponse
  /\ UNCHANGED stack

\* Variant of StartFailed that puts the task back in the queue for a retry.
StartFailedRequeues(id, message) ==
  /\ tasks' = SetField(id, "status", "queued")
  /\ pc' = [pc EXCEPT ![id] = "done"]
  /\ UNCHANGED containers

\* Variant of StartFailed that swallows the error and goes on to the wait.
StartFailedIgnored(id, message) ==
  /\ pc' = [pc EXCEPT ![id] = "wait"]
  /\ UNCHANGED <<tasks, containers>>

\* Variant of StartFailed that removes the container it could not start.
StartFailedRollsBack(id, message) ==
  /\ Catch(id, message)
  /\ containers' = [c \in DOMAIN containers \ {locals[id].container} |-> containers[c]]

\* A failed container.start(): the exception reaches the catch block.
StartFailed(id, message) ==
  /\ Catch(id, message)
  /\ UNCHANGED containers

\* Lines 137-140: container.start() ended.
StartDone(id, ok) ==
  /\ stack = Idle
  /\ pc[id] = "start"
  /\ IF locals[id].hostPort \in BoundPorts
       THEN StartFailed(id, PortInUse)
       ELSE IF ok
         THEN /\ containers' = [containers EXCEPT ![locals[id].container].started = TRUE]
              /\ pc' = [pc EXCEPT ![id] = "wait"]
              /\ UNCHANGED tasks
         ELSE StartFailed(id, StartError)
  /\ resp' = NoResponse
  /\ UNCHANGED <<stack, locals, calls>>

\* Variant of TimerDone that stores the container id and forgets the port.
TimerDoneNoPort(id) ==
  /\ stack = Idle
  /\ pc[id] = "wait"
  /\ tasks' = [tasks EXCEPT ![id] =
       Put(Put(@, "status", "running"), "containerId", locals[id].container)]
  /\ pc' = [pc EXCEPT ![id] = "done"]
  /\ resp' = NoResponse
  /\ UNCHANGED <<stack, locals, containers, calls>>

\* Variant of TimerDone that yields between the status write and the writes
\* of containerId and hostPort.
TimerDoneYields(id) ==
  /\ stack = Idle
  /\ \/ /\ pc[id] = "wait"
        /\ tasks' = SetField(id, "status", "running")
        /\ pc' = [pc EXCEPT ![id] = "store"]
     \/ /\ pc[id] = "store"
        /\ tasks' = [tasks EXCEPT ![id] =
             Put(Put(@, "containerId", locals[id].container),
                 "hostPort", locals[id].hostPort)]
        /\ pc' = [pc EXCEPT ![id] = "done"]
  /\ resp' = NoResponse
  /\ UNCHANGED <<stack, locals, containers, calls>>

\* Lines 140-144: the 6000 ms timer fired.
TimerDone(id) ==
  /\ stack = Idle
  /\ pc[id] = "wait"
  /\ tasks' = [tasks EXCEPT ![id] =
       Put(Put(Put(@, "status", "running"), "containerId", locals[id].container),
           "hostPort", locals[id].hostPort)]
  /\ pc' = [pc EXCEPT ![id] = "done"]
  /\ resp' = NoResponse
  /\ UNCHANGED <<stack, locals, containers, calls>>

(* -------------------------- GET /status/:id ---------------------------- *)

\* tasks[id] on the plain object `tasks`: own keys first, then Object.prototype.
Lookup(id) ==
  IF id \in DOMAIN tasks THEN [found |-> TRUE, value |-> tasks[id]]
  ELSE IF id \in ObjectPrototype THEN [found |-> TRUE, value |-> [inherited |-> id]]
  ELSE [found |-> FALSE]

Status(id) ==
  /\ stack = Idle
  /\ LET t == Lookup(id) IN
       resp' = IF ~t.found
                 THEN [req |-> "status", id |-> id, code |-> 404, error |-> "task not found"]
                 ELSE [req |-> "status", id |-> id, code |-> 200, body |-> t.value]
  /\ UNCHANGED <<tasks, stack, pc, locals, containers, calls>>

(* --------------------------- specification ----------------------------- *)

Next ==
  \/ \E type \in ReqTypes : DeployReject(type)
  \/ \E type \in ReqTypes : DeployCreate(type)
  \/ DeployLaunch
  \/ DeployRespond
  \/ \E id \in DOMAIN pc, ok \in BOOLEAN : PullDone(id, ok)
  \/ \E id \in DOMAIN pc : ProbeDone(id)
  \/ \E id \in DOMAIN pc, ok \in BOOLEAN : CreateDone(id, ok)
  \/ \E id \in DOMAIN pc, ok \in BOOLEAN : StartDone(id, ok)
  \/ \E id \in DOMAIN pc : TimerDone(id)
  \/ \E id \in QueryIds : Status(id)

Spec == Init /\ [][Next]_vars

\* One pipeline's continuations: each runtime call, probe and timer of a
\* started pipeline eventually ends and its continuation runs.
Pipeline(id) ==
  \/ \E ok \in BOOLEAN : PullDone(id, ok)
  \/ ProbeDone(id)
  \/ \E ok \in BOOLEAN : CreateDone(id, ok)
  \/ \E ok \in BOOLEAN : StartDone(id, ok)
  \/ TimerDone(id)

\* A handler that has started runs to its end; requests may stop arriving.
LiveSpec ==
  /\ Spec
  /\ WF_vars(DeployLaunch)
  /\ WF_vars(DeployRespond)
  /\ \A id \in TaskIds : WF_vars(id \in DOMAIN pc /\ Pipeline(id))

(***************************************************************************)
(* server.js: the one-handler backend POST /create.  It keeps no task      *)
(* store: `tasks` and `stack` stay as Init leaves them, and `pc`, `locals` *)
(* and `calls` are indexed by request.  Every answer is written with       *)
(* res.json, that is with HTTP status 200.                                 *)
(***************************************************************************)

\* The requests a behaviour handles, in order of arrival.
Requests == <<"r1", "r2">>

\* let image = type==="desktop" ? ... : "ubuntu:22.04"
image(type) ==
  IF type = "desktop" THEN "dorowu/ubuntu-desktop-lxde-vnc" ELSE "ubuntu:22.04"

\* let port = type==="desktop" ? 6080 : 22
port(type) == IF type = "desktop" THEN 6080 ELSE 22

\* Host ports the runtime may choose for HostPort "0".
EphemeralPorts == {32768, 32769}

\* res.json({ ok:false, error:e.toString() })
CreateFailed(r, message) ==
  /\ resp' = [req |-> "create", id |-> r, type |-> locals[r].type, code |-> 200,
              ok |-> FALSE, error |-> message]
  /\ pc' = [pc EXCEPT ![r] = "done"]

\* Lines 10-19: image and port are chosen, docker.createContainer is issued.
CreateReceive(type) ==
  /\ Cardinality(DOMAIN pc) < Len(Requests)
  /\ LET r == Requests[Cardinality(DOMAIN pc) + 1] IN
       /\ locals' = locals @@ (r :> [type |-> type, image |-> image(type), port |-> port(type)])
       /\ calls' = calls @@ (r :> [create |-> 1, start |-> 0, inspect |-> 0])
       /\ pc' = pc @@ (r :> "create")
  /\ resp' = NoResponse
  /\ UNCHANGED <<tasks, stack, containers>>

\* Lines 14-20: createContainer ended; container.start() is issued.
CreateContainerDone(r, ok) ==
  /\ pc[r] = "create"
  /\ IF ok
       THEN LET c == "c" \o ToString(Cardinality(DOMAIN containers) + 1) IN
            /\ containers' = containers @@
                 (c :> [name |-> locals[r].image, port |-> 0, started |-> FALSE])
            /\ locals' = [locals EXCEPT ![r] = Put(@, "container", c)]
            /\ calls' = [calls EXCEPT ![r].start = @ + 1]
            /\ pc' = [pc EXCEPT ![r] = "start"]
            /\ resp' = NoResponse
       ELSE /\ CreateFailed(r, CreateError)
            /\ UNCHANGED <<locals, containers, calls>>
  /\ UNCHANGED <<tasks, stack>>

\* Lines 20-21: start ended, the runtime has bound a free host port;
\* container.inspect() is issued.
CreateStartDone(r, ok) ==
  /\ pc[r] = "start"
  /\ IF ok /\ EphemeralPorts \ BoundPorts # {}
       THEN /\ \E hp \in EphemeralPorts \ BoundPorts :
                 containers' = [containers EXCEPT ![locals[r].container] =
                                  [@ EXCEPT !.port = hp, !.started = TRUE]]
            /\ calls' = [calls EXCEPT ![r].inspect = @ + 1]
            /\ pc' = [pc EXCEPT ![r] = "inspect"]
            /\ resp' = NoResponse
       ELSE /\ CreateFailed(r, StartError)
            /\ UNCHANGED <<containers, calls>>
  /\ UNCHANGED <<tasks, stack, locals>>

\* Lines 21-23: inspect ended; the bound host port is sent.
CreateInspectDone(r, ok) ==
  /\ pc[r] = "inspect"
  /\ IF ok
       THEN /\ resp' = [req |-> "create", id |-> r, type |-> locals[r].type, code |-> 200,
                        ok |-> TRUE, port |-> containers[locals[r].container].port]
            /\ pc' = [pc EXCEPT ![r] = "done"]
       ELSE CreateFailed(r, "inspect failed")
  /\ UNCHANGED <<tasks, stack, locals, containers, calls>>

ServerNext ==
  \/ \E type \in ReqTypes : CreateReceive(type)
  \/ \E r \in DOMAIN pc, ok \in BOOLEAN : CreateContainerDone(r, ok)
  \/ \E r \in DOMAIN pc, ok \in BOOLEAN : CreateStartDone(r, ok)
  \/ \E r \in DOMAIN pc, ok \in BOOLEAN : CreateInspectDone(r, ok)

ServerSpec == Init /\ [][ServerNext]_vars

(* ------------------------------ properties ----------------------------- *)

StatusOf(id) == tasks[id].status

Terminal(id) == id \in DOMAIN tasks /\ StatusOf(id) \in {"running", "error"}

Has(id, key) == key \in DOMAIN tasks[id]

\* The success path of the pipeline, one edge per step.
Forward == {<<"queued", "pulling">>, <<"pulling", "creating">>,
            <<"creating", "starting">>, <<"starting", "running">>}

\* C1: under weak fairness of the pipeline continuations, every task that a
\* deploy request created eventually has status 'running' or 'error', and a
\* task whose status is one of the two keeps that status in every later step.
C1_EveryTaskEndsOnce ==
  /\ \A id \in TaskIds : [](id \in DOMAIN tasks => <>Terminal(id))
  /\ [][\A id \in DOMAIN tasks :
          Terminal(id) => tasks'[id].status = tasks[id].status]_vars

\* C1 witness: one task ended running and another ended in error.
C1_Witness ==
  \E a, b \in DOMAIN tasks :
    /\ StatusOf(a) = "running" /\ pc[a] = "done"
    /\ StatusOf(b) = "error" /\ pc[b] = "done"

\* C2: every change of a task's status is one edge of the success path or a
\* move from a non-terminal status to 'error'; a new task starts as 'queued'
\* and no task leaves the store.
C2_StatusOnlyMovesForward ==
  [][/\ DOMAIN tasks \subseteq DOMAIN tasks'
     /\ \A id \in DOMAIN tasks' \ DOMAIN tasks : tasks'[id].status = "queued"
     /\ \A id \in DOMAIN tasks :
          tasks'[id].status # tasks[id].status =>
            \/ <<tasks[id].status, tasks'[id].status>> \in Forward
            \/ /\ tasks[id].status \notin {"running", "error"}
               /\ tasks'[id].status = "error"]_vars

\* C2 witness: a task went all the way to running while another one, which
\* had reached 'starting', was moved to error by a failed start.
C2_Witness ==
  \E a, b \in DOMAIN tasks :
    /\ StatusOf(a) = "running"
    /\ StatusOf(b) = "error" /\ tasks[b].error \in {StartError, PortInUse}

\* C3: two distinct tasks that both have status 'running' have different
\* hostPort values.
C3_RunningPortsDistinct ==
  \A a, b \in DOMAIN tasks :
    (a # b /\ StatusOf(a) = "running" /\ StatusOf(b) = "running")
      => tasks[a].hostPort # tasks[b].hostPort

\* C3 witness: two tasks are running at once.
C3_Witness ==
  \E a, b \in DOMAIN tasks :
    a # b /\ StatusOf(a) = "running" /\ StatusOf(b) = "running"

RuntimeFaults == {PullError, CreateError, StartError}

\* C4: when two deploys of the same type have both ended and the runtime had
\* no fault of its own (no pull, create or start failure other than a host
\* port that is already bound), both tasks are running, with two distinct
\* hostPort values and two distinct containerId values.
C4_TwoDeploysBothRun ==
  \A a, b \in DOMAIN pc :
    ( /\ a # b
      /\ tasks[a].type = tasks[b].type
      /\ pc[a] = "done" /\ pc[b] = "done"
      /\ \A t \in {a, b} : Has(t, "error") => tasks[t].error \notin RuntimeFaults )
    => /\ StatusOf(a) = "running" /\ StatusOf(b) = "running"
       /\ tasks[a].hostPort # tasks[b].hostPort
       /\ tasks[a].containerId # tasks[b].containerId

\* C5: a deploy request whose type is neither 'desktop' nor 'server' is
\* answered 400 in the step that handles it, and that step leaves the task
\* store, every pipeline, the runtime and the record of runtime calls as
\* they were.
C5_InvalidTypeRejected ==
  [][(resp'.req = "deploy" /\ resp'.type \notin ValidTypes) =>
       /\ resp'.code = 400
       /\ UNCHANGED <<tasks, stack, pc, locals, containers, calls>>]_vars

\* C5 witness: a request without a type has just been rejected while the
\* store holds a task.
C5_Witness ==
  /\ resp.req = "deploy" /\ resp.code = 400 /\ resp.type = "undefined"
  /\ DOMAIN tasks # {}

\* Ids that some deploy response has carried: a task is in the store and its
\* handler has sent the response.
Returned == {id \in DOMAIN tasks : stack = Idle \/ stack.id # id}

\* C6: a status query for an id that no deploy call returned is answered 404,
\* whatever the id is.
C6_UnknownIdNotFound ==
  (resp.req = "status" /\ resp.id \notin Returned) => resp.code = 404

\* C6 witness: the query that is answered without a task behind it.
C6_FailingQuery ==
  resp.req = "status" /\ resp.id = "constructor" /\ resp.code = 200

\* C7: getFreePort makes at most 100 probes in one call, each of a port
\* between 30000 and 40000; it returns a port only in the step in which the
\* probe of that very port succeeded, and it fails with 'no free ports' only
\* when the 100th probe of the call has failed.
C7_AllocatorContract ==
  /\ [](\A id \in DOMAIN pc :
          /\ pc[id] = "probe" =>
               /\ locals[id].i \in 0..99
               /\ locals[id].p >= 30000 /\ locals[id].p <= 40000
          /\ "hostPort" \in DOMAIN locals[id] =>
               locals[id].hostPort >= 30000 /\ locals[id].hostPort <= 40000)
  /\ [][\A id \in DOMAIN pc :
          /\ (pc[id] = "probe" /\ pc'[id] = "create") =>
               /\ locals'[id].hostPort = locals[id].p
               /\ locals[id].p \notin BoundPorts
          /\ (pc[id] = "probe" /\ pc'[id] = "probe" /\ locals'[id] # locals[id]) =>
               /\ locals'[id].i = locals[id].i + 1
               /\ locals[id].p \in BoundPorts
          /\ (pc[id] = "probe" /\ pc'[id] = "done") =>
               /\ tasks'[id].error = "no free ports"
               /\ locals[id].i = 99
               /\ locals[id].p \in BoundPorts
          /\ (pc[id] = "pull" /\ pc'[id] = "probe") => locals'[id].i = 0]_vars

\* C7 witness: one call gave up after its 100th probe and another call
\* returned a port.
C7_Witness ==
  \E a, b \in DOMAIN pc :
    /\ Has(a, "error") /\ tasks[a].error = NoFreePorts
    /\ "hostPort" \in DOMAIN locals[b]

\* C8: the step in which a task's pull fails puts the task in 'error' with an
\* error detail; at that point getFreePort, createContainer and start have
\* not been called for the task and hostPort and containerId are not set.
\* A field of a task that is set stays set, and an ended pipeline changes
\* nothing any more, so the two fields are set in no state of that task.
C8_PullFailureStopsPipeline ==
  [][\A id \in DOMAIN pc :
       /\ (pc[id] = "pull" /\ pc'[id] # "pull" /\ pc'[id] # "probe") =>
            /\ pc'[id] = "done"
            /\ tasks'[id].status = "error"
            /\ "error" \in DOMAIN tasks'[id] /\ tasks'[id].error # ""
            /\ "hostPort" \notin DOMAIN tasks'[id]
            /\ "containerId" \notin DOMAIN tasks'[id]
            /\ calls'[id].getFreePort = 0
            /\ calls'[id].create = 0
            /\ calls'[id].start = 0
       /\ DOMAIN tasks[id] \subseteq DOMAIN tasks'[id]
       /\ pc[id] = "done" =>
            /\ pc'[id] = "done"
            /\ tasks'[id] = tasks[id]
            /\ calls'[id] = calls[id]]_vars

\* C8 witness: a task whose pull failed.
C8_Witness ==
  \E id \in DOMAIN pc :
    pc[id] = "done" /\ Has(id, "error") /\ tasks[id].error = PullError

\* C9: when the handler reaches res.json({ id }) the response can be sent at
\* once, whatever the pipeline has done; in the state in which the response
\* with the id has just been sent the task is in the store with a
\* non-terminal status and its pull has not ended.
C9_ResponseDoesNotWait ==
  /\ stack.at = "respond" => ENABLED DeployRespond
  /\ (resp.req = "deploy" /\ resp.code = 200) =>
       /\ resp.id \in DOMAIN tasks
       /\ StatusOf(resp.id) \notin {"running", "error"}
       /\ pc[resp.id] = "pull"

\* C9 witness: the response of a second deploy has just been sent while the
\* pipeline of the first is past its pull.
C9_Witness ==
  /\ resp.req = "deploy" /\ resp.code = 200
  /\ \E other \in DOMAIN pc : other # resp.id /\ pc[other] \notin {"pull", "done"}

\* createContainer has succeeded for the task.
Created(id) == id \in DOMAIN locals /\ "container" \in DOMAIN locals[id]

Snapshot == resp.req = "status" /\ resp.code = 200 /\ resp.id \in DOMAIN tasks

\* C11: every snapshot a status query returns with status 'running' carries a
\* containerId and a hostPort between 30000 and 40000.
C11_RunningSnapshotComplete ==
  (Snapshot /\ resp.body.status = "running") =>
    /\ "containerId" \in DOMAIN resp.body
    /\ "hostPort" \in DOMAIN resp.body
    /\ resp.body.hostPort >= 30000 /\ resp.body.hostPort <= 40000

\* C11 witness: a status query has just returned a running task while the
\* other pipeline is still at work.
C11_Witness ==
  /\ Snapshot /\ resp.body.status = "running"
  /\ \E other \in DOMAIN pc : other # resp.id /\ pc[other] # "done"

\* C12: a task carries an error detail only if its status is 'error'.
C12_ErrorDetailOnlyInError ==
  \A id \in DOMAIN tasks : Has(id, "error") => StatusOf(id) = "error"

\* C12 witness: one task carries an error detail and another is running.
C12_Witness ==
  \E a, b \in DOMAIN tasks :
    Has(a, "error") /\ StatusOf(b) = "running"

WrittenOnce == {"containerId", "hostPort"}

\* C13: containerId and hostPort, once on a task, stay with the same value;
\* a step that writes one of them starts from a non-terminal status, ends
\* with status 'running' and ends the pipeline, so neither is written twice,
\* in a step that ends in 'error', or after a terminal status.
C13_HandleAndPortWrittenOnce ==
  [][\A id \in DOMAIN tasks : \A k \in WrittenOnce :
       /\ Has(id, k) => /\ k \in DOMAIN tasks'[id]
                        /\ tasks'[id][k] = tasks[id][k]
       /\ (~Has(id, k) /\ k \in DOMAIN tasks'[id]) =>
            /\ ~Terminal(id)
            /\ tasks'[id].status = "running"
            /\ pc'[id] = "done"]_vars

\* C13 witness: a running task holds both fields and a task whose start
\* failed, with a port and a container of its own, holds neither.
C13_Witness ==
  \E a, b \in DOMAIN tasks :
    /\ Has(a, "containerId") /\ Has(a, "hostPort")
    /\ StatusOf(b) = "error" /\ Created(b)
    /\ ~Has(b, "containerId") /\ ~Has(b, "hostPort")


\* The order in which a pipeline passes its awaits.
PipelineOrder == {<<"pull", "probe">>, <<"probe", "probe">>, <<"probe", "create">>,
                  <<"create", "start">>, <<"start", "wait">>, <<"wait", "done">>}

\* C14: getFreePort is called only after the pull succeeded, createContainer
\* only after getFreePort returned a port, start only after createContainer
\* returned a container, the wait begins only after start succeeded, and
\* 'running' is set only by the step that ends the wait; a pipeline moves
\* from one await to the next in that order or ends.
C14_StepsInOrder ==
  /\ [](\A id \in DOMAIN pc :
          /\ calls[id].getFreePort > 0 =>
               calls[id].pull > 0 /\ StatusOf(id) \notin {"queued", "pulling"}
          /\ calls[id].create > 0 =>
               calls[id].getFreePort > 0 /\ "hostPort" \in DOMAIN locals[id]
          /\ calls[id].start > 0 => calls[id].create > 0 /\ Created(id)
          /\ (pc[id] = "wait" \/ StatusOf(id) = "running") =>
               /\ calls[id].start > 0
               /\ containers[locals[id].container].started
          /\ StatusOf(id) = "running" => pc[id] = "done")
  /\ [][\A id \in DOMAIN pc :
          /\ pc'[id] # pc[id] =>
               <<pc[id], pc'[id]>> \in PipelineOrder \/ pc'[id] = "done"
          /\ (tasks'[id].status = "running" /\ StatusOf(id) # "running") =>
               pc[id] = "wait"]_vars

\* C14 witness: one pipeline went through every step and the other waits for
\* its start to end.
C14_Witness ==
  \E a, b \in DOMAIN pc :
    /\ StatusOf(a) = "running"
    /\ pc[b] = "start"

\* C15: for every task each of pull, getFreePort, createContainer and start
\* is called at most once; a pipeline that ends anywhere but at the end of
\* the wait puts the task in 'error' in that step; an ended pipeline makes no
\* call and no probe; no container is removed, stopped or changed.
C15_NoRetryNoRollback ==
  /\ [](\A id \in DOMAIN calls :
          \A what \in DOMAIN calls[id] : calls[id][what] <= 1)
  /\ [][/\ \A id \in DOMAIN pc :
             /\ (pc[id] \notin {"wait", "done"} /\ pc'[id] = "done") =>
                  tasks'[id].status = "error"
             /\ pc[id] = "done" =>
                  /\ pc'[id] = "done"
                  /\ calls'[id] = calls[id]
                  /\ locals'[id] = locals[id]
        /\ \A c \in DOMAIN containers :
             /\ c \in DOMAIN containers'
             /\ containers'[c].name = containers[c].name
             /\ containers'[c].port = containers[c].port
             /\ containers[c].started => containers'[c].started]_vars

\* C15 witness: a task ended in error after its start failed; its container
\* is still there, not started, and each operation was called once.
C15_Witness ==
  \E id \in DOMAIN pc :
    /\ StatusOf(id) = "error" /\ Created(id)
    /\ locals[id].container \in DOMAIN containers
    /\ ~containers[locals[id].container].started
    /\ \A what \in DOMAIN calls[id] : calls[id][what] = 1


\* getFreePort has returned a port to the pipeline, which has not ended.
Holding(id) ==
  id \in DOMAIN pc /\ pc[id] # "done" /\ "hostPort" \in DOMAIN locals[id]

\* C16: getFreePort reserves nothing: the step in which it returns a port
\* leaves the host's bound ports as they were, the returned port free among
\* them, so a probe of the same port by another pipeline succeeds until a
\* container is started on it.
C16_ProbeReservesNothing ==
  [][\A id \in DOMAIN pc :
       (pc[id] = "probe" /\ pc'[id] = "create") =>
         /\ BoundPorts' = BoundPorts
         /\ locals'[id].hostPort \notin BoundPorts']_vars

\* C16 witness: two distinct pipelines that have not ended hold the same port,
\* each from its own getFreePort call.
C16_Witness ==
  \E a, b \in DOMAIN pc :
    /\ a # b /\ Holding(a) /\ Holding(b)
    /\ StatusOf(a) \notin {"running", "error"}
    /\ StatusOf(b) \notin {"running", "error"}
    /\ locals[a].hostPort = locals[b].hostPort


\* The step is one of the pipeline, or of the handler run, bound to id.
StepOf(id) ==
  \/ id \in DOMAIN pc /\ (pc'[id] # pc[id] \/ locals'[id] # locals[id])
  \/ stack # Idle /\ stack.id = id

\* C17: a task record changes only in a step of the handler run or pipeline
\* bound to its own id, and such a step leaves every other record as it was;
\* a status query changes no record; the type of a task never changes and no
\* task leaves the store.
C17_OwnPipelineOnly ==
  [][/\ DOMAIN tasks \subseteq DOMAIN tasks'
     /\ \A id \in DOMAIN tasks :
          /\ tasks'[id].type = tasks[id].type
          /\ tasks'[id] # tasks[id] => StepOf(id)
          /\ StepOf(id) => \A other \in DOMAIN tasks \ {id} : tasks'[other] = tasks[other]
     /\ resp'.req = "status" => tasks' = tasks]_vars

\* C17 witness: a status query has just been answered while the store holds
\* a desktop task and a server task in different statuses.
C17_Witness ==
  /\ resp.req = "status"
  /\ \E a, b \in DOMAIN tasks :
       /\ tasks[a].type = "desktop" /\ tasks[b].type = "server"
       /\ StatusOf(a) = "starting" /\ StatusOf(b) = "creating"

\* C18: no status query returns a snapshot with status 'queued': a task is
\* 'queued' only inside the handler run that created it, before that run
\* reaches its response, and no request is handled while a run is in progress.
C18_QueuedNeverObserved ==
  /\ Snapshot => resp.body.status # "queued"
  /\ \A id \in DOMAIN tasks :
       StatusOf(id) = "queued" => stack # Idle /\ stack.at = "iife" /\ stack.id = id
  /\ stack # Idle => \A id \in QueryIds : ~ENABLED Status(id)

\* C18 witness: a status query has just returned a task in 'pulling', the
\* first status a query can see.
C18_Witness ==
  Snapshot /\ resp.body.status = "pulling" /\ pc[resp.id] = "pull"


\* C19: a /create request whose type is neither 'desktop' nor 'server' makes
\* no createContainer and no start call and is answered with a client error.
C19_CreateRejectsInvalidType ==
  \A r \in DOMAIN pc :
    ("type" \in DOMAIN locals[r] /\ locals[r].type \notin ValidTypes) =>
      /\ calls[r].create = 0
      /\ calls[r].start = 0
      /\ (resp.req = "create" /\ resp.id = r) => (resp.code >= 400 /\ resp.code < 500)

\* C19 witness: a /create request without a type has just been answered
\* ok:true with the host port of the container started for it.
C19_FailingRequest ==
  /\ resp.req = "create" /\ resp.type = "undefined"
  /\ resp.code = 200 /\ resp.ok
  /\ \E c \in DOMAIN containers :
       containers[c].started /\ containers[c].port = resp.port
                             /\ containers[c].name = "ubuntu:22.04"

====
